---- MODULE Spec2Model ----
(***************************************************************************)
(* LibreRTOS: single-stack kernel (librertos.c) and the two-phase queue.   *)
(*                                                                         *)
(* The kernel part models librertos_init, librertos_create_task,           *)
(* librertos_sched, librertos_tick_interrupt, task_suspend, task_resume    *)
(* and the intrusive list functions on a heap of next/prev/list/length     *)
(* cells.  Every kernel function body is one critical section, hence one   *)
(* action; the task function called by librertos_sched runs with           *)
(* interrupts enabled, so a dispatch and the return of the task are two    *)
(* actions with a frame of the single hardware stack in between.           *)
(*                                                                         *)
(* Specifications: Spec (kernel), SpecL (list functions alone), SpecM      *)
(* (mutexes alone), SpecQ (queue calls nested on the single stack),        *)
(* SpecQSeq (queue calls one at a time, with the tick interrupt) and       *)
(* SpecP (SpecQ with QueueReadPend and QueueWritePend).                    *)
(***************************************************************************)
EXTENDS Integers, Sequences, FiniteSets, TLC

\* ------------------------------------------------------------------------
\* Bounds of the model
\* ------------------------------------------------------------------------
NumTasks == 2

MaxTick == 1

MaxLog == 4

\* ------------------------------------------------------------------------
\* Compile-time configuration (librertos_proj.h)
\* ------------------------------------------------------------------------
NUM_PRIORITIES == 2

LOW_PRIORITY == 0

HIGH_PRIORITY == NUM_PRIORITIES - 1

LIBRERTOS_COOPERATIVE == "COOPERATIVE"

LIBRERTOS_PREEMPTIVE == "PREEMPTIVE"

TickModulus == 65536

\* ------------------------------------------------------------------------
\* Addresses
\* ------------------------------------------------------------------------
NULL == <<"null", 0>>

Task(n) == <<"task", n>>

Tasks == {Task(n) : n \in 1..NumTasks}

ReadyList(i) == <<"tasks_ready", i>>

SuspendedList == <<"tasks_suspended", 0>>

ReadyLists == {ReadyList(i) : i \in LOW_PRIORITY..HIGH_PRIORITY}

Lists == ReadyLists \cup {SuspendedList}

\* A list_t is cast to a node_t: its head is the cell's next, its tail the
\* cell's prev.
Cells == Tasks \cup Lists

VARIABLES
    tick,           \* librertos.tick
    current_task,   \* librertos.current_task
    heap,           \* next/prev/list of every node, head/tail/length of every list
    task_priority,  \* task->priority, -1 while the record is not created
    kernel_mode,    \* KERNEL_MODE of the build
    kstack,         \* frames of librertos_sched() waiting for task->func to return
    runlog,         \* tasks dispatched from idle since the last change of a list
    ev              \* the last kernel call and what it did

kvars == <<tick, current_task, heap, task_priority, kernel_mode, kstack, runlog, ev>>

Event(op, task, val) == [op |-> op, task |-> task, val |-> val]

VARIABLES
    free,         \* ptr->free
    used,         \* ptr->used
    w_lock,       \* ptr->w_lock
    r_lock,       \* ptr->r_lock
    head_ptr,     \* ptr->head_ptr, as an offset from ptr->buff_ptr
    tail_ptr,     \* ptr->tail_ptr, as an offset from ptr->buff_ptr
    buff,         \* the bytes of the queue's buffer, 0 where never written
    qstack,       \* the queue calls in progress, innermost last
    sched_lock,   \* nesting count of SchedulerLock()
    list_read,    \* ptr->event.list_read: tasks waiting to read
    list_write,   \* ptr->event.list_write: tasks waiting to write
    task_delay,   \* wake deadline of each task, -1 when it has none
    next_val,     \* the value the next successful write passes: 1, 2, .. MaxVal, 1, ..
    fifo,         \* values of the reserved writes no read has reserved yet
    slot_done     \* per slot: the write that last reserved it finished its memcpy

qvars == <<free, used, w_lock, r_lock, head_ptr, tail_ptr, buff, qstack,
           sched_lock, list_read, list_write, task_delay, next_val, fifo, slot_done>>

VARIABLES
    mutex_count,  \* mtx->count of every mutex: 0 unlocked, 1 locked
    mutex_wins    \* per mutex: successful locks since its last successful unlock

mvars == <<mutex_count, mutex_wins>>

vars == <<kvars, qvars, mvars>>

\* ------------------------------------------------------------------------
\* Intrusive list (librertos.c:230-357), as functions on the heap
\* ------------------------------------------------------------------------
list_init(h, l) ==
    [h EXCEPT !.next[l] = l, !.prev[l] = l, !.length[l] = 0]

node_init(h, node) ==
    [h EXCEPT !.next[node] = NULL, !.prev[node] = NULL, !.list[node] = NULL]

\* Variant: pos->next = node is done before pos->next->prev = node.
list_insert_after_Reordered(h, l, pos, node) ==
    LET n1 == [h.next EXCEPT ![node] = h.next[pos]]
        p1 == [h.prev EXCEPT ![node] = pos]
        n2 == [n1 EXCEPT ![pos] = node]
        p2 == [p1 EXCEPT ![n2[pos]] = node]
    IN [next |-> n2,
        prev |-> p2,
        list |-> [h.list EXCEPT ![node] = l],
        length |-> [h.length EXCEPT ![l] = h.length[l] + 1]]

list_insert_after(h, l, pos, node) ==
    LET n1 == [h.next EXCEPT ![node] = h.next[pos]]
        p1 == [h.prev EXCEPT ![node] = pos]
        p2 == [p1 EXCEPT ![n1[pos]] = node]
        n2 == [n1 EXCEPT ![pos] = node]
    IN [next |-> n2,
        prev |-> p2,
        list |-> [h.list EXCEPT ![node] = l],
        length |-> [h.length EXCEPT ![l] = h.length[l] + 1]]

list_insert_before(h, l, pos, node) ==
    list_insert_after(h, l, h.prev[pos], node)

list_insert_first(h, l, node) ==
    list_insert_after(h, l, l, node)

list_insert_last(h, l, node) ==
    list_insert_after(h, l, h.prev[l], node)

list_remove(h, node) ==
    LET l == h.list[node]
        p1 == [h.prev EXCEPT ![h.next[node]] = h.prev[node]]
        n1 == [h.next EXCEPT ![p1[node]] = h.next[node]]
    IN [next |-> [n1 EXCEPT ![node] = NULL],
        prev |-> [p1 EXCEPT ![node] = NULL],
        list |-> [h.list EXCEPT ![node] = NULL],
        length |-> [h.length EXCEPT ![l] = h.length[l] - 1]]

list_get_first(h, l) == h.next[l]

list_get_last(h, l) == h.prev[l]

list_empty(h, l) == h.length[l] = 0

\* The nodes met from the sentinel of l along next, until the walk is back at
\* the sentinel or leaves the cells (at most n steps).
RECURSIVE WalkNext(_, _, _, _)
WalkNext(h, l, c, n) ==
    IF n = 0 \/ c = l \/ c \notin Tasks THEN <<>>
    ELSE <<c>> \o WalkNext(h, l, h.next[c], n - 1)

RECURSIVE WalkPrev(_, _, _, _)
WalkPrev(h, l, c, n) ==
    IF n = 0 \/ c = l \/ c \notin Tasks THEN <<>>
    ELSE <<c>> \o WalkPrev(h, l, h.prev[c], n - 1)

ListSeq(h, l) == WalkNext(h, l, h.next[l], NumTasks + 1)

ListSeqBack(h, l) == WalkPrev(h, l, h.prev[l], NumTasks + 1)

\* ------------------------------------------------------------------------
\* librertos_init (librertos.c:25-46)
\* ------------------------------------------------------------------------
RECURSIVE InitLists(_, _)
InitLists(h, i) ==
    IF i >= NUM_PRIORITIES THEN h
    ELSE InitLists(list_init(h, ReadyList(i)), i + 1)

\* Task records are not initialised by librertos_init: their node fields are
\* NULL here only to have a value; no action reads them before create_task.
RawHeap ==
    [next |-> [c \in Cells |-> NULL],
     prev |-> [c \in Cells |-> NULL],
     list |-> [t \in Tasks |-> NULL],
     length |-> [l \in Lists |-> 0]]

librertos_init_heap == list_init(InitLists(RawHeap, 0), SuspendedList)

Created(t) == task_priority[t] >= 0

KInit ==
    /\ tick = 0
    /\ current_task = NULL
    /\ heap = librertos_init_heap
    /\ task_priority = [t \in Tasks |-> -1]
    /\ kernel_mode \in {LIBRERTOS_COOPERATIVE, LIBRERTOS_PREEMPTIVE}
    /\ kstack = <<>>
    /\ runlog = <<>>
    /\ ev = Event("init", NULL, 0)

\* ------------------------------------------------------------------------
\* librertos_create_task (librertos.c:48-71)
\* ------------------------------------------------------------------------
create_task_heap(h, priority, task) ==
    list_insert_last(node_init(h, task), ReadyList(priority), task)

\* Variant: the lowest priority is rejected.
ValidPriority_AboveLow(priority) ==
    priority > LOW_PRIORITY /\ priority <= HIGH_PRIORITY

\* The condition of LIBRERTOS_ASSERT.
ValidPriority(priority) ==
    priority >= LOW_PRIORITY /\ priority <= HIGH_PRIORITY

librertos_create_task(priority, task) ==
    /\ ~Created(task)
    /\ IF ValidPriority(priority)
       THEN /\ task_priority' = [task_priority EXCEPT ![task] = priority]
            /\ heap' = create_task_heap(heap, priority, task)
            /\ runlog' = <<>>
            /\ ev' = Event("create", task, priority)
       ELSE \* LIBRERTOS_ASSERT does not return
            /\ ev' = Event("assert", task, priority)
            /\ UNCHANGED <<task_priority, heap, runlog>>
    /\ UNCHANGED <<tick, current_task, kernel_mode, kstack>>
    /\ UNCHANGED <<qvars, mvars>>

\* ------------------------------------------------------------------------
\* librertos_sched (librertos.c:76-132)
\* ------------------------------------------------------------------------
CurrentPriority(cur) == IF cur = NULL THEN -1 ELSE task_priority[cur]

\* for (i = HIGH_PRIORITY; i > current_priority; i--): the first i whose
\* ready list is not empty, -1 when the loop ends without one.
RECURSIVE SchedLoop(_, _, _)
SchedLoop(h, i, current_priority) ==
    IF ~(i > current_priority) THEN -1
    ELSE IF list_empty(h, ReadyList(i)) THEN SchedLoop(h, i - 1, current_priority)
    ELSE i

\* Variant: the loop runs while i >= current_priority.
SchedSelect_AllowEqual(h, current_priority) ==
    SchedLoop(h, HIGH_PRIORITY,
              IF current_priority > -1 THEN current_priority - 1 ELSE -1)

\* Variant: the loop starts one below HIGH_PRIORITY.
SchedSelect_SkipHighest(h, current_priority) ==
    SchedLoop(h, HIGH_PRIORITY - 1, current_priority)

SchedSelect(h, current_priority) == SchedLoop(h, HIGH_PRIORITY, current_priority)

\* Variant: the dispatched node is put back at the front.
SchedRotate_ToFront(h, l, node) == list_insert_first(list_remove(h, node), l, node)

\* list_remove(node); list_insert_last(&librertos.tasks_ready[i], node);
SchedRotate(h, l, node) == list_insert_last(list_remove(h, node), l, node)

\* Variant: current_task is cleared instead of restored.
SchedRestore_Null(f) == NULL

\* librertos.current_task = current_task;
SchedRestore(f) == f.saved

Push(log, t) ==
    IF Len(log) < MaxLog THEN Append(log, t) ELSE Append(Tail(log), t)

librertos_sched ==
    LET cur == current_task
        current_priority == CurrentPriority(cur)
        i == SchedSelect(heap, current_priority)
    IN /\ IF kernel_mode = LIBRERTOS_COOPERATIVE /\ current_priority >= 0
          THEN /\ ev' = Event("sched", NULL, 0)
               /\ UNCHANGED <<tick, current_task, heap, task_priority,
                              kernel_mode, kstack, runlog>>
          ELSE IF i = -1
          THEN /\ ev' = Event("sched", NULL, 0)
               /\ UNCHANGED <<tick, current_task, heap, task_priority,
                              kernel_mode, kstack, runlog>>
          ELSE LET node == list_get_first(heap, ReadyList(i))
               IN /\ heap' = SchedRotate(heap, ReadyList(i), node)
                  /\ current_task' = node
                  /\ kstack' = Append(kstack, [task |-> node, saved |-> cur])
                  /\ runlog' = IF cur = NULL THEN Push(runlog, node) ELSE <<>>
                  /\ ev' = Event("sched", node, i)
                  /\ UNCHANGED <<tick, task_priority, kernel_mode>>
       /\ UNCHANGED <<qvars, mvars>>

\* task->func(task->param) returns into librertos_sched, which restores
\* current_task and returns (librertos.c:118-128).
TaskReturn ==
    /\ kstack # <<>>
    /\ LET f == kstack[Len(kstack)]
       IN /\ current_task' = SchedRestore(f)
          /\ ev' = Event("return", f.task, 0)
    /\ kstack' = SubSeq(kstack, 1, Len(kstack) - 1)
    /\ UNCHANGED <<tick, heap, task_priority, kernel_mode, runlog>>
    /\ UNCHANGED <<qvars, mvars>>

\* ------------------------------------------------------------------------
\* librertos_tick_interrupt (librertos.c:139-148)
\* ------------------------------------------------------------------------
\* librertos.tick++ on a tick_t
TickNext(t) == (t + 1) % TickModulus

\* At most MaxTick ticks count up from 0; the tick that wraps is always
\* possible.
librertos_tick_interrupt ==
    /\ tick < MaxTick \/ tick = TickModulus - 1
    /\ tick' = TickNext(tick)
    /\ ev' = Event("tick", NULL, 0)
    /\ UNCHANGED <<current_task, heap, task_priority, kernel_mode, kstack, runlog>>
    /\ UNCHANGED <<qvars, mvars>>

\* ------------------------------------------------------------------------
\* task_suspend (librertos.c:195-208), task_resume (librertos.c:213-228)
\* ------------------------------------------------------------------------
\* Variant: the node is not taken off the list it is on.
suspend_heap_NoRemove(h, task) ==
    list_insert_first(h, SuspendedList, task)

suspend_heap(h, task) ==
    list_insert_first(list_remove(h, task), SuspendedList, task)

\* Variant: NULL names the task at the bottom of the stack.
SuspendTask_Outermost(arg) ==
    IF arg = NULL
    THEN (IF kstack = <<>> THEN NULL ELSE kstack[1].task)
    ELSE arg

\* if (task == NULL) task = librertos.current_task;
SuspendTask(arg) ==
    IF arg = NULL THEN current_task ELSE arg

\* arg is a created task, or NULL when a task is running.  The event's
\* value is 1 when the call was task_suspend(NULL).
task_suspend(arg) ==
    LET task == SuspendTask(arg)
    IN /\ task # NULL
       /\ Created(task)
       /\ heap' = suspend_heap(heap, task)
       /\ runlog' = <<>>
       /\ ev' = Event("suspend", task, IF arg = NULL THEN 1 ELSE 0)
       /\ UNCHANGED <<tick, current_task, task_priority, kernel_mode, kstack>>
       /\ UNCHANGED <<qvars, mvars>>

\* Variant: the task is moved without looking at the list it is on.
resume_heap_NoCheck(h, task, list_ready) ==
    list_insert_last(list_remove(h, task), list_ready, task)

resume_heap(h, task, list_ready) ==
    IF h.list[task] # list_ready
    THEN list_insert_last(list_remove(h, task), list_ready, task)
    ELSE h

task_resume(task) ==
    /\ Created(task)
    /\ heap' = resume_heap(heap, task, ReadyList(task_priority[task]))
    /\ runlog' = IF heap' = heap THEN runlog ELSE <<>>
    /\ ev' = Event("resume", task, IF heap' = heap THEN 0 ELSE 1)
    /\ UNCHANGED <<tick, current_task, task_priority, kernel_mode, kstack>>
    /\ UNCHANGED <<qvars, mvars>>

\* ------------------------------------------------------------------------
\* Queue (QueueInit .. QueueLength), with the calls nested on the single
\* stack: an interrupt, or a task dispatched from one, may call the queue
\* while the call below it is outside its critical sections, and returns
\* before that call goes on.
\* ------------------------------------------------------------------------
QueueLen == 2

ItemSize == 2

MaxVal == 3

MaxNest == 2

MAX_DELAY == 65535


buff_ptr == 0

buff_end_ptr == (QueueLen - 1) * ItemSize

Slots == 0..(QueueLen - 1)

SlotOf(ptr) == ptr \div ItemSize

Item(v) == [i \in 1..ItemSize |-> v]

\* What a read is due: the item of a reserved write, and how many writes were
\* copying when that write reserved its slot.
Due(item, nest) == [item |-> item, nest |-> nest]

NoDue == Due([i \in 1..ItemSize |-> 0], 0)

RECURSIVE CopyingWrites(_)
CopyingWrites(s) ==
    IF s = <<>> THEN 0
    ELSE (IF Head(s).op = "write" /\ Head(s).pc = "copy" THEN 1 ELSE 0)
         + CopyingWrites(Tail(s))

EmptyItem == [i \in 1..ItemSize |-> 0]

Top == qstack[Len(qstack)]

Pop(s) == SubSeq(s, 1, Len(s) - 1)

SetTop(s, f) == [s EXCEPT ![Len(s)] = f]

\* Interrupts are enabled: a further call may start.
CanCall == Len(qstack) < MaxNest

QueueInit ==
    /\ free = QueueLen
    /\ used = 0
    /\ w_lock = 0
    /\ r_lock = 0
    /\ head_ptr = buff_ptr
    /\ tail_ptr = buff_ptr
    /\ buff = [a \in 0..(QueueLen * ItemSize - 1) |-> 0]
    /\ list_read = <<>>
    /\ list_write = <<>>

\* Variant: the wrap test uses >= and never reaches the last slot.
Advance_WrapEarly(ptr) ==
    IF ptr + ItemSize >= buff_end_ptr THEN buff_ptr ELSE ptr + ItemSize

\* if ((ptr += item_size) > buff_end_ptr) ptr = buff_ptr;
Advance(ptr) ==
    IF ptr + ItemSize > buff_end_ptr THEN buff_ptr ELSE ptr + ItemSize

\* OSEventUnblockTasks: the first waiting task goes back to the ready list
\* of its priority.
UnblockHeap(h, list) ==
    LET task == Head(list)
    IN IF h.list[task] = NULL
       THEN list_insert_last(h, ReadyList(task_priority[task]), task)
       ELSE h

UnblockDelay(list) == [task_delay EXCEPT ![Head(list)] = -1]

\* Variant: the full test is off by one.
QueueWriteVal_OffByOne == free > 1

\* val = (ptr->free != 0U);   val = (ptr->used != 0U);
QueueWriteVal == free # 0

QueueReadVal == used # 0

\* Variant: the slot is taken after the tail has advanced.
WritePos_AfterAdvance ==
    IF tail_ptr + ItemSize > buff_end_ptr THEN buff_ptr ELSE tail_ptr + ItemSize

\* pos_ptr = ptr->tail_ptr;   pos_ptr = ptr->head_ptr;
WritePos == tail_ptr

ReadPos == head_ptr

\* Variant: a commit publishes its own item only.
WriteCommitUsed_OwnOnly == used + 1

\* ptr->used = (len_t)(ptr->used + ptr->w_lock);
WriteCommitUsed == used + w_lock

\* ptr->free = (len_t)(ptr->free + ptr->r_lock);
ReadCommitFree == free + r_lock

\* QueueWrite, first critical section (mutex_test.cpp:212-229)
QueueWrite(v) ==
    /\ CanCall
    /\ IF QueueWriteVal
       THEN /\ tail_ptr' = Advance(tail_ptr)
            /\ w_lock' = w_lock + 1
            /\ free' = free - 1
            /\ sched_lock' = sched_lock + 1
            /\ qstack' = Append(qstack,
                  [op |-> "write", pos_ptr |-> WritePos, lock |-> w_lock,
                   data |-> Item(v), n |-> 0, pc |-> "copy", expect |-> NoDue,
                   pend |-> -1])
            /\ next_val' = (v % MaxVal) + 1
            /\ fifo' = Append(fifo, Due(Item(v), CopyingWrites(qstack)))
            /\ slot_done' = [slot_done EXCEPT ![SlotOf(WritePos)] = FALSE]
            /\ ev' = Event("write", NULL, 1)
            /\ UNCHANGED <<used, r_lock, head_ptr, buff, list_read, list_write,
                           task_delay>>
       ELSE /\ ev' = Event("write", NULL, 0)
            /\ UNCHANGED qvars
    /\ UNCHANGED mvars
    /\ UNCHANGED <<tick, current_task, heap, task_priority, kernel_mode, kstack,
                   runlog>>

\* memcpy(pos_ptr, buff_ptr, item_size), one byte at a time, interrupts enabled
WriteCopied(f) ==
    [buff EXCEPT ![f.pos_ptr + f.n] = f.data[f.n + 1]]

QueueWriteCopy ==
    /\ qstack # <<>>
    /\ Top.op = "write" /\ Top.pc = "copy" /\ Top.n < ItemSize
    /\ buff' = WriteCopied(Top)
    /\ qstack' = SetTop(qstack, [Top EXCEPT !.n = Top.n + 1])
    /\ slot_done' = IF Top.n + 1 = ItemSize
                    THEN [slot_done EXCEPT ![SlotOf(Top.pos_ptr)] = TRUE]
                    ELSE slot_done
    /\ ev' = Event("write_copy", NULL, Top.n + 1)
    /\ UNCHANGED <<free, used, w_lock, r_lock, head_ptr, tail_ptr, sched_lock,
                   list_read, list_write, task_delay, next_val, fifo>>
    /\ UNCHANGED mvars
    /\ UNCHANGED <<tick, current_task, heap, task_priority, kernel_mode, kstack,
                   runlog>>

\* Variant: every writer publishes, whatever its lock value.
WritePublish_Always(lock) == TRUE

\* Variant: the writers that did not reserve first publish.
WritePublish_Inverted(lock) == lock # 0

\* if (lock == 0U) { used += w_lock; w_lock = 0; }
WritePublish(lock) == lock = 0

\* QueueWrite, second critical section (mutex_test.cpp:237-250)
QueueWriteCommit ==
    /\ qstack # <<>>
    /\ Top.op = "write" /\ Top.pc = "copy" /\ Top.n = ItemSize
    /\ IF WritePublish(Top.lock)
       THEN /\ used' = WriteCommitUsed
            /\ w_lock' = 0
       ELSE UNCHANGED <<used, w_lock>>
    /\ IF Len(list_read) # 0
       THEN /\ heap' = UnblockHeap(heap, list_read)
            /\ task_delay' = UnblockDelay(list_read)
            /\ list_read' = Tail(list_read)
       ELSE UNCHANGED <<heap, task_delay, list_read>>
    /\ qstack' = SetTop(qstack, [Top EXCEPT !.pc = "exit"])
    /\ ev' = Event("write_commit", NULL, Top.lock)
    /\ UNCHANGED <<free, r_lock, head_ptr, tail_ptr, buff, sched_lock,
                   list_write, next_val, fifo, slot_done>>
    /\ UNCHANGED mvars
    /\ UNCHANGED <<tick, current_task, task_priority, kernel_mode, kstack, runlog>>

\* QueueWrite: SchedulerUnlock(); return val; (mutex_test.cpp:252-256)
QueueWriteReturn ==
    /\ qstack # <<>>
    /\ Top.op = "write" /\ Top.pc = "exit"
    /\ sched_lock' = sched_lock - 1
    /\ qstack' = Pop(qstack)
    /\ ev' = Event("write_return", NULL, 1)
    /\ UNCHANGED <<free, used, w_lock, r_lock, head_ptr, tail_ptr, buff,
                   list_read, list_write, task_delay, next_val, fifo, slot_done>>
    /\ UNCHANGED mvars
    /\ UNCHANGED <<tick, current_task, heap, task_priority, kernel_mode, kstack,
                   runlog>>

\* QueueRead, first critical section (mutex_test.cpp:142-157)
QueueRead ==
    /\ CanCall
    /\ IF QueueReadVal
       THEN /\ head_ptr' = Advance(head_ptr)
            /\ r_lock' = r_lock + 1
            /\ used' = used - 1
            /\ qstack' = Append(qstack,
                  [op |-> "read", pos_ptr |-> ReadPos, lock |-> r_lock,
                   data |-> EmptyItem, n |-> 0, pc |-> "copy",
                   expect |-> IF fifo # <<>> THEN Head(fifo) ELSE NoDue,
                   pend |-> -1])
            /\ fifo' = IF fifo # <<>> THEN Tail(fifo) ELSE fifo
            /\ ev' = Event("read", NULL, 1)
            /\ UNCHANGED <<free, w_lock, tail_ptr, buff, sched_lock, list_read,
                           list_write, task_delay, next_val, slot_done>>
       ELSE /\ ev' = Event("read", NULL, 0)
            /\ UNCHANGED qvars
    /\ UNCHANGED mvars
    /\ UNCHANGED <<tick, current_task, heap, task_priority, kernel_mode, kstack,
                   runlog>>

\* memcpy(buff_ptr, pos_ptr, item_size), one byte at a time, interrupts enabled
ReadCopied(f) ==
    [f.data EXCEPT ![f.n + 1] = buff[f.pos_ptr + f.n]]

QueueReadCopy ==
    /\ qstack # <<>>
    /\ Top.op = "read" /\ Top.pc = "copy" /\ Top.n < ItemSize
    /\ qstack' = SetTop(qstack, [Top EXCEPT !.data = ReadCopied(Top), !.n = Top.n + 1])
    /\ ev' = Event("read_copy", NULL, Top.n + 1)
    /\ UNCHANGED <<free, used, w_lock, r_lock, head_ptr, tail_ptr, buff,
                   sched_lock, list_read, list_write, task_delay, next_val, fifo, slot_done>>
    /\ UNCHANGED mvars
    /\ UNCHANGED <<tick, current_task, heap, task_priority, kernel_mode, kstack,
                   runlog>>

\* if (lock == 0U) { free += r_lock; r_lock = 0; }
ReadPublish(lock) == lock = 0

\* QueueRead, second critical section (mutex_test.cpp:165-180)
QueueReadCommit ==
    /\ qstack # <<>>
    /\ Top.op = "read" /\ Top.pc = "copy" /\ Top.n = ItemSize
    /\ IF ReadPublish(Top.lock)
       THEN /\ free' = ReadCommitFree
            /\ r_lock' = 0
       ELSE UNCHANGED <<free, r_lock>>
    /\ sched_lock' = sched_lock + 1
    /\ IF Len(list_write) # 0
       THEN /\ heap' = UnblockHeap(heap, list_write)
            /\ task_delay' = UnblockDelay(list_write)
            /\ list_write' = Tail(list_write)
       ELSE UNCHANGED <<heap, task_delay, list_write>>
    /\ qstack' = SetTop(qstack, [Top EXCEPT !.pc = "exit"])
    /\ ev' = Event("read_commit", NULL, Top.lock)
    /\ UNCHANGED <<used, w_lock, head_ptr, tail_ptr, buff, list_read, next_val, fifo,
                   slot_done>>
    /\ UNCHANGED mvars
    /\ UNCHANGED <<tick, current_task, task_priority, kernel_mode, kstack, runlog>>

\* Variant: the successful read returns without SchedulerUnlock().
ReadReturnLock_NoUnlock == sched_lock

\* if (val != 0) SchedulerUnlock();
ReadReturnLock == sched_lock - 1

\* QueueRead: SchedulerUnlock(); return val; (mutex_test.cpp:182-186)
QueueReadReturn ==
    /\ qstack # <<>>
    /\ Top.op = "read" /\ Top.pc = "exit"
    /\ sched_lock' = ReadReturnLock
    /\ qstack' = Pop(qstack)
    /\ ev' = Event("read_return", NULL, 1)
    /\ UNCHANGED <<free, used, w_lock, r_lock, head_ptr, tail_ptr, buff,
                   list_read, list_write, task_delay, next_val, fifo, slot_done>>
    /\ UNCHANGED mvars
    /\ UNCHANGED <<tick, current_task, heap, task_priority, kernel_mode, kstack,
                   runlog>>

\* QueueLength (mutex_test.cpp:465-472)
QueueLength == free + used + w_lock + r_lock

\* OSEventPrePendTask: the task's event node leaves the wait list it is on.
Without(list, task) == SelectSeq(list, LAMBDA x : x # task)

\* OSEventPendTask: the task waits at the end of the list, gets its deadline
\* and leaves its ready list.
PendHeap(h, task) == IF h.list[task] # NULL THEN list_remove(h, task) ELSE h

PendDelay(task, ticks_to_wait) ==
    [task_delay EXCEPT ![task] =
        IF ticks_to_wait = MAX_DELAY THEN -1 ELSE (tick + ticks_to_wait) % TickModulus]

\* Variant: the task pends without looking at the queue again.
PendCond_NoRecheck(op) == TRUE

\* if (ptr->used == 0U) for the reading calls, if (ptr->free == 0U) for the
\* writing ones, read with the scheduler locked and interrupts disabled.
PendCond(op) ==
    IF op \in {"pend_read", "read_pend"} THEN used = 0 ELSE free = 0

\* QueuePendRead / QueuePendWrite up to INTERRUPTS_ENABLE()
\* (mutex_test.cpp:363-370, 397-404); called by the running task only.
QueuePend(op, ticks_to_wait) ==
    /\ qstack = <<>>
    /\ current_task # NULL
    /\ IF ticks_to_wait # 0 /\ PendCond(op)
       THEN /\ sched_lock' = sched_lock + 1
            /\ list_read' = Without(list_read, current_task)
            /\ list_write' = Without(list_write, current_task)
            /\ qstack' = Append(qstack,
                  [op |-> op, pos_ptr |-> 0, lock |-> ticks_to_wait,
                   data |-> EmptyItem, n |-> 0, pc |-> "pend", expect |-> NoDue,
                   pend |-> ticks_to_wait])
            /\ ev' = Event(op, current_task, 1)
            /\ UNCHANGED <<free, used, w_lock, r_lock, head_ptr, tail_ptr, buff,
                           task_delay, next_val, fifo, slot_done>>
       ELSE /\ ev' = Event(op, current_task, 0)
            /\ UNCHANGED qvars
    /\ UNCHANGED mvars
    /\ UNCHANGED <<tick, current_task, heap, task_priority, kernel_mode, kstack,
                   runlog>>

\* OSEventPendTask(); SchedulerUnlock(); (mutex_test.cpp:371-375, 405-409)
QueuePendFinish ==
    /\ qstack # <<>>
    /\ Top.pc = "pend"
    /\ IF Top.op \in {"pend_read", "read_pend"}
       THEN /\ list_read' = Append(list_read, current_task)
            /\ UNCHANGED list_write
       ELSE /\ list_write' = Append(list_write, current_task)
            /\ UNCHANGED list_read
    /\ task_delay' = PendDelay(current_task, Top.lock)
    /\ heap' = PendHeap(heap, current_task)
    /\ sched_lock' = sched_lock - 1
    /\ qstack' = Pop(qstack)
    /\ ev' = Event("pend_return", current_task, 0)
    /\ UNCHANGED <<free, used, w_lock, r_lock, head_ptr, tail_ptr, buff, next_val, fifo,
                   slot_done>>
    /\ UNCHANGED mvars
    /\ UNCHANGED <<tick, current_task, task_priority, kernel_mode, kstack, runlog>>

\* QueueReadPend up to the return of QueueRead (mutex_test.cpp:292-295);
\* called by the running task only.  A successful call goes on as the read
\* it is; a failed one has QueuePendRead still to call.
QueueReadPend(ticks_to_wait) ==
    /\ qstack = <<>>
    /\ current_task # NULL
    /\ IF QueueReadVal
       THEN /\ head_ptr' = Advance(head_ptr)
            /\ r_lock' = r_lock + 1
            /\ used' = used - 1
            /\ qstack' = Append(qstack,
                  [op |-> "read", pos_ptr |-> ReadPos, lock |-> r_lock,
                   data |-> EmptyItem, n |-> 0, pc |-> "copy",
                   expect |-> IF fifo # <<>> THEN Head(fifo) ELSE NoDue,
                   pend |-> ticks_to_wait])
            /\ fifo' = IF fifo # <<>> THEN Tail(fifo) ELSE fifo
            /\ ev' = Event("read_pend", current_task, 1)
            /\ UNCHANGED <<free, w_lock, tail_ptr, buff, sched_lock, list_read,
                           list_write, task_delay, next_val, slot_done>>
       ELSE /\ qstack' = Append(qstack,
                  [op |-> "read_pend", pos_ptr |-> 0, lock |-> ticks_to_wait,
                   data |-> EmptyItem, n |-> 0, pc |-> "failed", expect |-> NoDue,
                   pend |-> ticks_to_wait])
            /\ ev' = Event("read_pend", current_task, 0)
            /\ UNCHANGED <<free, used, w_lock, r_lock, head_ptr, tail_ptr, buff,
                           sched_lock, list_read, list_write, task_delay, next_val,
                           fifo, slot_done>>
    /\ UNCHANGED mvars
    /\ UNCHANGED <<tick, current_task, heap, task_priority, kernel_mode, kstack,
                   runlog>>

\* QueueWritePend up to the return of QueueWrite (mutex_test.cpp:336-339)
QueueWritePend(v, ticks_to_wait) ==
    /\ qstack = <<>>
    /\ current_task # NULL
    /\ IF QueueWriteVal
       THEN /\ tail_ptr' = Advance(tail_ptr)
            /\ w_lock' = w_lock + 1
            /\ free' = free - 1
            /\ sched_lock' = sched_lock + 1
            /\ qstack' = Append(qstack,
                  [op |-> "write", pos_ptr |-> WritePos, lock |-> w_lock,
                   data |-> Item(v), n |-> 0, pc |-> "copy", expect |-> NoDue,
                   pend |-> ticks_to_wait])
            /\ next_val' = (v % MaxVal) + 1
            /\ fifo' = Append(fifo, Due(Item(v), CopyingWrites(qstack)))
            /\ slot_done' = [slot_done EXCEPT ![SlotOf(WritePos)] = FALSE]
            /\ ev' = Event("write_pend", current_task, 1)
            /\ UNCHANGED <<used, r_lock, head_ptr, buff, list_read, list_write,
                           task_delay>>
       ELSE /\ qstack' = Append(qstack,
                  [op |-> "write_pend", pos_ptr |-> 0, lock |-> ticks_to_wait,
                   data |-> EmptyItem, n |-> 0, pc |-> "failed", expect |-> NoDue,
                   pend |-> ticks_to_wait])
            /\ ev' = Event("write_pend", current_task, 0)
            /\ UNCHANGED <<free, used, w_lock, r_lock, head_ptr, tail_ptr, buff,
                           sched_lock, list_read, list_write, task_delay, next_val,
                           fifo, slot_done>>
    /\ UNCHANGED mvars
    /\ UNCHANGED <<tick, current_task, heap, task_priority, kernel_mode, kstack,
                   runlog>>

\* if (val == 0) QueuePendRead / QueuePendWrite, up to INTERRUPTS_ENABLE()
\* (mutex_test.cpp:295-298, 339-342, 363-370, 397-404); when the task does not
\* pend the call returns val, which is 0.
QueuePendAfterFail ==
    /\ qstack # <<>>
    /\ Top.pc = "failed"
    /\ IF Top.pend # 0 /\ PendCond(Top.op)
       THEN /\ sched_lock' = sched_lock + 1
            /\ list_read' = Without(list_read, current_task)
            /\ list_write' = Without(list_write, current_task)
            /\ qstack' = SetTop(qstack, [Top EXCEPT !.pc = "pend"])
            /\ ev' = Event(Top.op, current_task, 2)
       ELSE /\ qstack' = Pop(qstack)
            /\ ev' = Event("pend_return", current_task, 1)
            /\ UNCHANGED <<sched_lock, list_read, list_write>>
    /\ UNCHANGED <<free, used, w_lock, r_lock, head_ptr, tail_ptr, buff, task_delay,
                   next_val, fifo, slot_done>>
    /\ UNCHANGED mvars
    /\ UNCHANGED <<tick, current_task, heap, task_priority, kernel_mode, kstack,
                   runlog>>

\* ------------------------------------------------------------------------
\* Mutex (mutex_init, mutex_lock, mutex_unlock, mutex_islocked); each call
\* is one critical section.
\* ------------------------------------------------------------------------
NumMutexes == 4

Mutexes == {<<"mutex", n>> : n \in 1..NumMutexes}

SUCCESS == 1

FAIL == 0

\* mutex_init: count = 0
mutex_init == [m \in Mutexes |-> 0]

MutexInit ==
    /\ mutex_count = mutex_init
    /\ mutex_wins = [m \in Mutexes |-> 0]

\* Variant: lock never looks at count.
MutexLockVal_Always(count) == TRUE

\* lock: fails if count != 0
MutexLockVal(count) == count = 0

\* unlock: fails if count == 0
MutexUnlockVal(count) == count # 0

mutex_lock(m) ==
    /\ IF MutexLockVal(mutex_count[m])
       THEN /\ mutex_count' = [mutex_count EXCEPT ![m] = 1]
            /\ mutex_wins' = [mutex_wins EXCEPT ![m] = IF @ < 2 THEN @ + 1 ELSE @]
            /\ ev' = Event("mutex_lock", m, SUCCESS)
       ELSE /\ ev' = Event("mutex_lock", m, FAIL)
            /\ UNCHANGED mvars
    /\ UNCHANGED <<tick, current_task, heap, task_priority, kernel_mode, kstack,
                   runlog>>
    /\ UNCHANGED qvars

mutex_unlock(m) ==
    /\ IF MutexUnlockVal(mutex_count[m])
       THEN /\ mutex_count' = [mutex_count EXCEPT ![m] = 0]
            /\ mutex_wins' = [mutex_wins EXCEPT ![m] = 0]
            /\ ev' = Event("mutex_unlock", m, SUCCESS)
       ELSE /\ ev' = Event("mutex_unlock", m, FAIL)
            /\ UNCHANGED mvars
    /\ UNCHANGED <<tick, current_task, heap, task_priority, kernel_mode, kstack,
                   runlog>>
    /\ UNCHANGED qvars

\* is_locked: reports count
mutex_islocked(m) ==
    /\ ev' = Event("mutex_islocked", m, mutex_count[m])
    /\ UNCHANGED mvars
    /\ UNCHANGED <<tick, current_task, heap, task_priority, kernel_mode, kstack,
                   runlog>>
    /\ UNCHANGED qvars

\* ------------------------------------------------------------------------
\* The kernel with every task created and the first one dispatched, and the
\* queue as QueueInit leaves it.
InitPriority(t) == (t[2] - 1) % NUM_PRIORITIES

RECURSIVE CreateAll(_, _)
CreateAll(h, n) ==
    IF n > NumTasks THEN h
    ELSE CreateAll(create_task_heap(h, InitPriority(Task(n)), Task(n)), n + 1)

QInit ==
    /\ tick = 0
    /\ task_priority = [t \in Tasks |-> InitPriority(t)]
    /\ kernel_mode = LIBRERTOS_PREEMPTIVE
    /\ LET h == CreateAll(librertos_init_heap, 1)
           i == SchedLoop(h, HIGH_PRIORITY, -1)
           node == list_get_first(h, ReadyList(i))
       IN /\ heap = list_insert_last(list_remove(h, node), ReadyList(i), node)
          /\ current_task = node
          /\ kstack = <<[task |-> node, saved |-> NULL]>>
    /\ runlog = <<>>
    /\ ev = Event("init", NULL, 0)
    /\ MutexInit
    /\ QueueInit
    /\ qstack = <<>>
    /\ sched_lock = 0
    /\ task_delay = [t \in Tasks |-> -1]
    /\ next_val = 1
    /\ fifo = <<>>
    /\ slot_done = [k \in Slots |-> TRUE]

QNext ==
    \/ QueueWrite(next_val)
    \/ QueueWriteCopy
    \/ QueueWriteCommit
    \/ QueueWriteReturn
    \/ QueueRead
    \/ QueueReadCopy
    \/ QueueReadCommit
    \/ QueueReadReturn
    \/ \E op \in {"pend_read", "pend_write"}, ticks \in {0, 1, MAX_DELAY} :
          QueuePend(op, ticks)
    \/ QueuePendFinish

SpecQ == QInit /\ [][QNext]_vars

\* The same calls, none of them started while another is in progress, and
\* the tick interrupt.
QNextSeq ==
    \/ qstack = <<>> /\ QueueWrite(next_val)
    \/ QueueWriteCopy
    \/ QueueWriteCommit
    \/ QueueWriteReturn
    \/ qstack = <<>> /\ QueueRead
    \/ QueueReadCopy
    \/ QueueReadCommit
    \/ QueueReadReturn
    \/ \E op \in {"pend_read", "pend_write"}, ticks \in {0, 1, MAX_DELAY} :
          QueuePend(op, ticks)
    \/ QueuePendFinish
    \/ librertos_tick_interrupt

SpecQSeq == QInit /\ [][QNextSeq]_vars

\* The values of ticks_to_wait passed to the pending calls of SpecP.
PendTicks == {0, 1}

\* The nested calls of SpecQ and the calls that read or write and then pend.
PNext ==
    \/ QueueWrite(next_val)
    \/ QueueWriteCopy
    \/ QueueWriteCommit
    \/ QueueWriteReturn
    \/ QueueRead
    \/ QueueReadCopy
    \/ QueueReadCommit
    \/ QueueReadReturn
    \/ \E op \in {"pend_read", "pend_write"}, ticks \in PendTicks :
          QueuePend(op, ticks)
    \/ QueuePendFinish
    \/ \E ticks \in PendTicks : QueueReadPend(ticks)
    \/ \E ticks \in PendTicks : QueueWritePend(next_val, ticks)
    \/ QueuePendAfterFail

SpecP == QInit /\ [][PNext]_vars

\* ------------------------------------------------------------------------
\* The kernel alone: the queue is initialised and never used.
\* ------------------------------------------------------------------------
Init ==
    /\ KInit
    /\ MutexInit
    /\ QueueInit
    /\ qstack = <<>>
    /\ sched_lock = 0
    /\ task_delay = [t \in Tasks |-> -1]
    /\ next_val = 1
    /\ fifo = <<>>
    /\ slot_done = [k \in Slots |-> TRUE]

Next ==
    \/ \E p \in (LOW_PRIORITY - 1)..(HIGH_PRIORITY + 1), t \in Tasks :
          librertos_create_task(p, t)
    \/ librertos_sched
    \/ TaskReturn
    \/ librertos_tick_interrupt
    \/ \E t \in Tasks \cup {NULL} : task_suspend(t)
    \/ \E t \in Tasks : task_resume(t)

Spec == Init /\ [][Next]_vars

\* The kernel from the state that TickModulus - 1 tick interrupts after
\* librertos_init leave: the next tick wraps.
InitWrap ==
    /\ tick = TickModulus - 1
    /\ current_task = NULL
    /\ heap = librertos_init_heap
    /\ task_priority = [t \in Tasks |-> -1]
    /\ kernel_mode \in {LIBRERTOS_COOPERATIVE, LIBRERTOS_PREEMPTIVE}
    /\ kstack = <<>>
    /\ runlog = <<>>
    /\ ev = Event("tick", NULL, 0)
    /\ MutexInit
    /\ QueueInit
    /\ qstack = <<>>
    /\ sched_lock = 0
    /\ task_delay = [t \in Tasks |-> -1]
    /\ next_val = 1
    /\ fifo = <<>>
    /\ slot_done = [k \in Slots |-> TRUE]

SpecWrap == InitWrap /\ [][Next]_vars

\* The lists alone: list_init of each list, then insertions of detached
\* nodes at every position and removals of attached nodes.  The nodes are
\* the sched_node of the task records, after node_init.
RECURSIVE InitNodes(_, _)
InitNodes(h, n) ==
    IF n > NumTasks THEN h ELSE InitNodes(node_init(h, Task(n)), n + 1)

Initialised(h, l) == h.next[l] # NULL

Detached(h, node) == h.list[node] = NULL

\* pos is the sentinel of l (LIST_HEAD) or a node attached to l.
Positions(h, l) == {l} \cup {t \in Tasks : h.list[t] = l}

ListIndex(l) == IF l = SuspendedList THEN NUM_PRIORITIES ELSE l[2]

LInit ==
    /\ tick = 0
    /\ current_task = NULL
    /\ heap = InitNodes(RawHeap, 1)
    /\ task_priority = [t \in Tasks |-> -1]
    /\ kernel_mode = LIBRERTOS_PREEMPTIVE
    /\ kstack = <<>>
    /\ runlog = <<>>
    /\ ev = Event("init", NULL, 0)
    /\ MutexInit
    /\ QueueInit
    /\ qstack = <<>>
    /\ sched_lock = 0
    /\ task_delay = [t \in Tasks |-> -1]
    /\ next_val = 1
    /\ fifo = <<>>
    /\ slot_done = [k \in Slots |-> TRUE]

ListStep(op, l, node, h) ==
    /\ heap' = h
    /\ ev' = Event(op, node, ListIndex(l))
    /\ UNCHANGED <<tick, current_task, task_priority, kernel_mode, kstack, runlog>>
    /\ UNCHANGED <<qvars, mvars>>

ListInit(l) ==
    /\ ~Initialised(heap, l)
    /\ ListStep("list_init", l, NULL, list_init(heap, l))

ListInsertAfter(l, pos, node) ==
    /\ Initialised(heap, l)
    /\ Detached(heap, node)
    /\ pos \in Positions(heap, l)
    /\ ListStep("list_insert_after", l, node, list_insert_after(heap, l, pos, node))

ListInsertBefore(l, pos, node) ==
    /\ Initialised(heap, l)
    /\ Detached(heap, node)
    /\ pos \in Positions(heap, l)
    /\ ListStep("list_insert_before", l, node, list_insert_before(heap, l, pos, node))

ListInsertFirst(l, node) ==
    /\ Initialised(heap, l)
    /\ Detached(heap, node)
    /\ ListStep("list_insert_first", l, node, list_insert_first(heap, l, node))

ListInsertLast(l, node) ==
    /\ Initialised(heap, l)
    /\ Detached(heap, node)
    /\ ListStep("list_insert_last", l, node, list_insert_last(heap, l, node))

ListRemove(node) ==
    /\ ~Detached(heap, node)
    /\ ListStep("list_remove", heap.list[node], node, list_remove(heap, node))

LNext ==
    \/ \E l \in Lists : ListInit(l)
    \/ \E l \in Lists, pos \in Cells, node \in Tasks : ListInsertAfter(l, pos, node)
    \/ \E l \in Lists, pos \in Cells, node \in Tasks : ListInsertBefore(l, pos, node)
    \/ \E l \in Lists, node \in Tasks : ListInsertFirst(l, node)
    \/ \E l \in Lists, node \in Tasks : ListInsertLast(l, node)
    \/ \E node \in Tasks : ListRemove(node)

SpecL == LInit /\ [][LNext]_vars

\* The mutexes alone: the kernel and the queue stay as initialised.
MNext ==
    \/ \E m \in Mutexes : mutex_lock(m)
    \/ \E m \in Mutexes : mutex_unlock(m)
    \/ \E m \in Mutexes : mutex_islocked(m)

SpecM == Init /\ [][MNext]_vars

\* ========================================================================
\* Properties of the queue
\* ========================================================================
Frames == {qstack[i] : i \in DOMAIN qstack}

ReadFrames == {f \in Frames : f.op = "read"}

WriteFrames == {f \in Frames : f.op = "write"}

\* C1: at every critical-section boundary used + free + w_lock + r_lock is
\* the capacity the queue was initialised with, none of the four counters is
\* below 0, and so QueueLength() returns the capacity in every state.
C1_CountersSumToCapacity ==
    /\ used + free + w_lock + r_lock = QueueLen
    /\ used >= 0 /\ free >= 0 /\ w_lock >= 0 /\ r_lock >= 0
    /\ QueueLength = QueueLen

\* A write and a read are both between their two critical sections.
C1_Witness == w_lock > 0 /\ r_lock > 0 /\ Len(qstack) >= 2

\* C2: a reader never sees a partially written slot: every slot counted in
\* used, and every slot a read is copying from, has been completely copied by
\* the write that reserved it.
C2_ReadersSeeWholeSlots ==
    /\ \A k \in 0..(used - 1) :
          slot_done[(SlotOf(head_ptr) + k) % QueueLen]
    /\ \A f \in ReadFrames : f.pc = "copy" => slot_done[SlotOf(f.pos_ptr)]

\* A read copies its slot while an interrupted write below it on the stack
\* has not finished its own copy.
C2_Witness ==
    \E i, j \in DOMAIN qstack :
        /\ i < j
        /\ qstack[i].op = "write" /\ qstack[i].pc = "copy" /\ qstack[i].n < ItemSize
        /\ qstack[j].op = "read" /\ qstack[j].pc = "copy" /\ qstack[j].n > 0

\* C3: items are dequeued in the order in which their slots were reserved:
\* every read, in the order of the read reservations, copies out the bytes
\* of the next reserved write, also when the writes overlapped.
C3_DequeueInReservationOrder ==
    /\ Len(fifo) = used + w_lock
    /\ \A f \in ReadFrames :
          \A k \in 1..f.n : f.data[k] = f.expect.item[k]
    /\ \A f \in ReadFrames : f.expect.item # EmptyItem

\* A read has copied out the whole item of a write that reserved its slot
\* while another write was copying.
C3_Witness ==
    \E f \in ReadFrames : f.n = ItemSize /\ f.expect.nest > 0 /\ f.pc = "exit"

\* The items from head on, as the buffer holds them.
SlotItem(k) == [i \in 1..ItemSize |-> buff[k * ItemSize + i - 1]]

Stored == [k \in 1..used |-> SlotItem((SlotOf(head_ptr) + k - 1) % QueueLen)]

\* C4: with no overlapping calls the queue is a bounded FIFO sequence: between
\* calls the buffer holds, from head on, exactly the values written and not
\* yet read, oldest first, free is the room left, and a read returns the
\* oldest of them, also after head and tail have wrapped.
C4_SequentialFifo ==
    /\ qstack = <<>> =>
          /\ used = Len(fifo)
          /\ free = QueueLen - Len(fifo)
          /\ Stored = [k \in 1..Len(fifo) |-> fifo[k].item]
    /\ \A f \in ReadFrames : f.n = ItemSize => f.data = f.expect.item
    /\ Len(qstack) <= 1

\* A read has returned the item of the last slot after the tail has wrapped
\* and a later item is stored at the start of the buffer.
C4_Witness ==
    /\ Len(qstack) = 1
    /\ Top.op = "read" /\ Top.pc = "exit" /\ Top.pos_ptr = buff_end_ptr
    /\ used >= 1 /\ head_ptr = buff_ptr

QueueState ==
    <<free, used, w_lock, r_lock, head_ptr, tail_ptr, buff, list_read,
      list_write, sched_lock, qstack, task_delay, heap>>

\* C5: a write fails exactly when free is 0 in its critical section and a
\* read exactly when used is 0, and a failing call changes no counter, no
\* pointer, no byte of the buffer, no wait list and not the scheduler lock.
C5_FailureLeavesQueueUnchanged ==
    [][/\ ev'.op = "write" =>
            /\ (ev'.val = 0) <=> (free = 0)
            /\ ev'.val = 0 => UNCHANGED QueueState
            /\ ev'.val = 1 => free' = free - 1
       /\ ev'.op = "read" =>
            /\ (ev'.val = 0) <=> (used = 0)
            /\ ev'.val = 0 => UNCHANGED QueueState
            /\ ev'.val = 1 => used' = used - 1]_vars

\* A write has failed on a full queue on which a task waits to write.
C5_Witness ==
    /\ ev.op = "write" /\ ev.val = 0
    /\ free = 0 /\ list_write # <<>>

\* ========================================================================
\* Properties of the scheduler
\* ========================================================================
ReadySeq(h, i) == ListSeq(h, ReadyList(i))

NonEmptyPriorities(h) ==
    {i \in LOW_PRIORITY..HIGH_PRIORITY : ReadySeq(h, i) # <<>>}

TopPriority(h) ==
    CHOOSE i \in NonEmptyPriorities(h) : \A j \in NonEmptyPriorities(h) : j <= i

PriorityOf(t) == IF t = NULL THEN -1 ELSE task_priority[t]

\* A step in which librertos_sched() calls a task function.
Dispatches == Len(kstack') = Len(kstack) + 1

\* C6: the task sched() dispatches is the front task of the highest-priority
\* non-empty ready list, its priority is strictly greater than that of the
\* task running at the call (any priority from idle), and in cooperative
\* mode nothing is dispatched while a task is running.
C6_DispatchHighestAboveRunning ==
    [][Dispatches =>
          /\ NonEmptyPriorities(heap) # {}
          /\ current_task' = Head(ReadySeq(heap, TopPriority(heap)))
          /\ task_priority[current_task'] = TopPriority(heap)
          /\ task_priority[current_task'] > PriorityOf(current_task)
          /\ kernel_mode = LIBRERTOS_COOPERATIVE => current_task = NULL]_vars

\* A task was dispatched on top of a running task of lower priority.
C6_Witness ==
    /\ Len(kstack) = 2
    /\ ev.op = "sched" /\ ev.task = current_task
    /\ kstack[2].saved # NULL

\* The tasks dispatched from idle while no list changes otherwise: with k
\* tasks on the top list the log repeats with period k, any k consecutive
\* dispatches run each of them once and the last ones dispatched are the last
\* ones of the list.
RunLogCyclic ==
    runlog # <<>> =>
        LET L == ReadySeq(heap, task_priority[runlog[Len(runlog)]])
            k == Len(L)
            n == Len(runlog)
            m == IF n < k THEN n ELSE k
        IN /\ k > 0
           /\ SubSeq(runlog, n - m + 1, n) = SubSeq(L, k - m + 1, k)
           /\ \A j \in 1..n : j + k <= n => runlog[j] = runlog[j + k]
           /\ \A j \in 1..n : j + k - 1 <= n =>
                 {runlog[x] : x \in j..(j + k - 1)} = {L[x] : x \in 1..k}

\* C7: a dispatch moves the task from the front to the back of its ready
\* list, so with k tasks ready at the top priority and no other list change
\* consecutive sched() calls from idle run them cyclically in list order, each
\* of them once in any k consecutive dispatches.
C7_RoundRobin ==
    /\ []RunLogCyclic
    /\ [][Dispatches =>
             LET l == task_priority[current_task']
             IN /\ ReadySeq(heap, l) # <<>>
                /\ current_task' = Head(ReadySeq(heap, l))
                /\ ReadySeq(heap', l) =
                      Append(Tail(ReadySeq(heap, l)), current_task')]_vars

\* More dispatches from idle than tasks on the top list, which holds several.
C7_Witness ==
    /\ runlog # <<>>
    /\ Len(ReadySeq(heap, task_priority[runlog[1]])) >= 2
    /\ Len(runlog) > Len(ReadySeq(heap, task_priority[runlog[1]]))

NoneReadyAbove(h, t) ==
    \A i \in LOW_PRIORITY..HIGH_PRIORITY : i > PriorityOf(t) => ReadySeq(h, i) = <<>>

\* A step in which librertos_sched() returns: after its task, or at once.
SchedReturns == ev'.op = "return" \/ (ev'.op = "sched" /\ ev'.task = NULL)

\* C8 as stated: sched() returns only when no ready task with a priority
\* strictly greater than that of the interrupted task remains.
C8_ReturnsOnlyWhenNoneReady ==
    [][SchedReturns => NoneReadyAbove(heap', current_task')]_vars

\* C8, amended: a call of sched() runs at most one task: when the task it
\* dispatched returns it restores current_task and returns, leaving every
\* list as it is; it returns without running a task only when no ready task
\* has a priority strictly greater than that of the interrupted task, or in
\* cooperative mode while a task is running.
C8_RunsOneTaskThenReturns ==
    [][/\ ev'.op = "return" =>
            /\ kstack # <<>>
            /\ kstack' = SubSeq(kstack, 1, Len(kstack) - 1)
            /\ current_task' = kstack[Len(kstack)].saved
            /\ heap' = heap
       /\ (ev'.op = "sched" /\ ev'.task = NULL) =>
            /\ \/ NoneReadyAbove(heap, current_task)
               \/ kernel_mode = LIBRERTOS_COOPERATIVE /\ current_task # NULL
            /\ UNCHANGED <<heap, current_task, kstack>>]_vars

\* sched() called from idle has run one task and returned while another
\* task is ready.
C8_Witness ==
    /\ ev.op = "return" /\ kstack = <<>> /\ current_task = NULL
    /\ NonEmptyPriorities(heap) # {}

\* C9: the running tasks form a stack with strictly increasing priorities:
\* no task is entered twice, the depth is at most NUM_PRIORITIES (1 in
\* cooperative mode), current_task is the innermost running task, and each
\* sched() holds the current_task of its call, to which it returns: the task
\* below on the stack, null at the bottom.
C9_NestingStack ==
    /\ Len(kstack) <= NUM_PRIORITIES
    /\ kernel_mode = LIBRERTOS_COOPERATIVE => Len(kstack) <= 1
    /\ current_task = IF kstack = <<>> THEN NULL ELSE kstack[Len(kstack)].task
    /\ \A i \in DOMAIN kstack :
          kstack[i].saved = IF i = 1 THEN NULL ELSE kstack[i - 1].task
    /\ \A i, j \in DOMAIN kstack :
          i < j => task_priority[kstack[i].task] < task_priority[kstack[j].task]

\* In preemptive mode an outer task has resumed after the task nested on it
\* returned.
C9_Witness ==
    /\ kernel_mode = LIBRERTOS_PREEMPTIVE
    /\ ev.op = "return" /\ Len(kstack) = 1
    /\ current_task = kstack[1].task
    /\ task_priority[ev.task] > task_priority[current_task]

\* C10: a suspended task stays on the suspended list and is not dispatched
\* until resume is called on it; resume moves a task that is not on the
\* ready list of its priority to the tail of that list, and changes nothing
\* when the task is on it already.
C10_SuspendUntilResume ==
    [][/\ \A t \in Tasks :
            (heap.list[t] = SuspendedList /\ ~(ev'.op = "resume" /\ ev'.task = t)) =>
                /\ heap'.list[t] = SuspendedList
                /\ Dispatches => current_task' # t
       /\ ev'.op = "suspend" => heap'.list[ev'.task] = SuspendedList
       /\ ev'.op = "resume" =>
            LET t == ev'.task
                p == task_priority[t]
            IN IF heap.list[t] = ReadyList(p)
               THEN heap' = heap
               ELSE /\ ReadySeq(heap', p) = Append(ReadySeq(heap, p), t)
                    /\ heap'.list[t] = ReadyList(p)
                    /\ \A i \in LOW_PRIORITY..HIGH_PRIORITY :
                          i # p => ReadySeq(heap', i) = ReadySeq(heap, i)]_vars

\* A suspended task has been resumed behind another task of its priority.
C10_Witness ==
    /\ ev.op = "resume" /\ ev.val = 1
    /\ LET L == ReadySeq(heap, task_priority[ev.task])
       IN Len(L) >= 2 /\ L[Len(L)] = ev.task

\* C11: task_suspend(NULL) called by a running task moves that task to the
\* suspended list and does not end its invocation: current_task and the
\* stack of invocations are unchanged by the call; when the suspended
\* task's function returns, librertos_sched restores the current_task it
\* saved and leaves the lists alone; and a dispatch never picks a task
\* that is on the suspended list.
C11_SelfSuspendKeepsRunning ==
    /\ [][(ev'.op = "suspend" /\ ev'.val = 1) =>
            /\ current_task # NULL
            /\ heap'.list[current_task] = SuspendedList
            /\ current_task \in
                   {ListSeq(heap', SuspendedList)[k] :
                       k \in 1..Len(ListSeq(heap', SuspendedList))}
            /\ \A i \in LOW_PRIORITY..HIGH_PRIORITY :
                   \A k \in 1..Len(ReadySeq(heap', i)) :
                       ReadySeq(heap', i)[k] # current_task
            /\ current_task' = current_task
            /\ kstack' = kstack]_vars
    /\ [][(Len(kstack') < Len(kstack) /\
            heap.list[current_task] = SuspendedList) =>
            /\ current_task' = kstack[Len(kstack)].saved
            /\ heap' = heap]_vars
    /\ [][Dispatches => heap.list[current_task'] # SuspendedList]_vars

\* A task dispatched from inside another task has suspended itself with
\* task_suspend(NULL) and is still the running task.
C11_Witness ==
    /\ ev.op = "suspend"
    /\ ev.val = 1
    /\ Len(kstack) = 2
    /\ current_task = ev.task
    /\ heap.list[current_task] = SuspendedList

\* ------------------------------------------------------------------------
\* Claims about timeouts, the mutex, task creation and the lists
\* ------------------------------------------------------------------------
OnWaitList(t) ==
    \/ \E k \in 1..Len(list_read) : list_read[k] = t
    \/ \E k \in 1..Len(list_write) : list_write[k] = t

\* The deadline of t has been reached by the tick and no event woke t
\* before (an unblocked task has no deadline).
TimedOut(t) == task_delay[t] # -1 /\ tick = task_delay[t]

\* C12: a task that pended on the empty queue at tick t with a timeout
\* n # MAX_DELAY, nothing being written meanwhile, is back on its ready
\* list and on no wait list once the tick interrupt has made tick = t + n,
\* and a read it then makes on the still empty queue fails.
C12_TimeoutMakesTaskReady ==
    /\ [](\A t \in Tasks :
            TimedOut(t) =>
               /\ heap.list[t] = ReadyList(task_priority[t])
               /\ ~OnWaitList(t))
    /\ [][(TimedOut(current_task) /\ used = 0 /\ ev'.op = "read") =>
            ev'.val = 0]_vars

\* C13: every mutex is a binary lock.  count is 0 or 1 and 0 after init;
\* lock succeeds exactly when count is 0 and then sets it to 1; unlock
\* succeeds exactly when count is 1 and then sets it to 0; a failing lock or
\* unlock changes nothing; is_locked reports count and changes nothing; no
\* call touches another mutex; and at most one lock succeeds between two
\* successful unlocks.
C13_MutexBinaryLock ==
    /\ [](\A m \in Mutexes :
            /\ mutex_count[m] \in {0, 1}
            /\ mutex_wins[m] <= 1
            /\ ev.op = "init" => mutex_count[m] = 0)
    /\ [][\A m \in Mutexes :
            /\ (ev'.op = "mutex_lock" /\ ev'.task = m) =>
                  /\ ev'.val = SUCCESS <=> mutex_count[m] = 0
                  /\ ev'.val = SUCCESS => mutex_count'[m] = 1
                  /\ ev'.val = FAIL => mutex_count'[m] = mutex_count[m]
            /\ (ev'.op = "mutex_unlock" /\ ev'.task = m) =>
                  /\ ev'.val = SUCCESS <=> mutex_count[m] = 1
                  /\ ev'.val = SUCCESS => mutex_count'[m] = 0
                  /\ ev'.val = FAIL => mutex_count'[m] = mutex_count[m]
            /\ (ev'.op = "mutex_islocked" /\ ev'.task = m) =>
                  /\ ev'.val = mutex_count[m]
                  /\ mutex_count'[m] = mutex_count[m]
            /\ ev'.task # m => mutex_count'[m] = mutex_count[m]]_vars

\* A second lock of a locked mutex has just failed while another mutex is
\* unlocked.
C13_Witness ==
    /\ ev.op = "mutex_lock"
    /\ ev.val = FAIL
    /\ mutex_count[ev.task] = 1
    /\ \E m \in Mutexes : mutex_count[m] = 0

\* C14: librertos_create_task with a priority outside
\* LOW_PRIORITY..HIGH_PRIORITY calls the assertion hook and changes neither
\* the task record nor any list; with a valid priority p it puts the task
\* at the tail of ready list p, behind the tasks already there, sets the
\* task's priority to p and changes no other list and no other task.
C14_CreateTaskValidatesPriority ==
    [][/\ ev'.op = "assert" =>
            /\ ev'.val \notin LOW_PRIORITY..HIGH_PRIORITY
            /\ UNCHANGED <<heap, task_priority>>
       /\ ev'.op = "create" =>
            /\ ev'.val \in LOW_PRIORITY..HIGH_PRIORITY
            /\ ReadySeq(heap', ev'.val) = Append(ReadySeq(heap, ev'.val), ev'.task)
            /\ heap'.list[ev'.task] = ReadyList(ev'.val)
            /\ task_priority' = [task_priority EXCEPT ![ev'.task] = ev'.val]
            /\ \A l \in Lists \ {ReadyList(ev'.val)} :
                   /\ ListSeq(heap', l) = ListSeq(heap, l)
                   /\ ListSeqBack(heap', l) = ListSeqBack(heap, l)
                   /\ heap'.length[l] = heap.length[l]]_vars

\* A create_task with an invalid priority has just been refused while a
\* created task is on a list.
C14_Witness ==
    /\ ev.op = "assert"
    /\ ~Created(ev.task)
    /\ \E t \in Tasks : Created(t) /\ heap.list[t] # NULL

\* The cell at which the walk from the sentinel of l ends, along next and
\* along prev.
RECURSIVE EndNext(_, _, _, _)
EndNext(h, l, c, n) ==
    IF n = 0 \/ c = l \/ c \notin Tasks THEN c ELSE EndNext(h, l, h.next[c], n - 1)

RECURSIVE EndPrev(_, _, _, _)
EndPrev(h, l, c, n) ==
    IF n = 0 \/ c = l \/ c \notin Tasks THEN c ELSE EndPrev(h, l, h.prev[c], n - 1)

Reverse(q) == [k \in 1..Len(q) |-> q[Len(q) + 1 - k]]

Members(q) == {q[k] : k \in 1..Len(q)}

\* C15: after any sequence of list_init, list_insert_after / before /
\* first / last of detached nodes and list_remove of attached nodes, the
\* walk from the sentinel of every initialised list comes back to the
\* sentinel after exactly `length` nodes, along next and along prev, and
\* the two walks meet the same nodes in opposite orders; a node is on at
\* most one list, on the list its `list` field names and on none when
\* that field is NULL; a detached node has next and prev NULL; and
\* list_remove leaves list, next and prev of its node NULL.
C15_ListsWellFormed ==
    /\ [](\A l \in Lists :
            Initialised(heap, l) =>
               /\ EndNext(heap, l, heap.next[l], NumTasks + 1) = l
               /\ EndPrev(heap, l, heap.prev[l], NumTasks + 1) = l
               /\ Len(ListSeq(heap, l)) = heap.length[l]
               /\ Len(ListSeqBack(heap, l)) = heap.length[l]
               /\ ListSeqBack(heap, l) = Reverse(ListSeq(heap, l))
               /\ Cardinality(Members(ListSeq(heap, l))) = heap.length[l])
    /\ [](\A node \in Tasks :
            /\ Cardinality({l \in Lists : node \in Members(ListSeq(heap, l))}) <= 1
            /\ \A l \in Lists :
                  node \in Members(ListSeq(heap, l)) <=> heap.list[node] = l
            /\ heap.list[node] = NULL =>
                  heap.next[node] = NULL /\ heap.prev[node] = NULL)
    /\ [][ev'.op = "list_remove" =>
            /\ heap.list[ev'.task] # NULL
            /\ heap'.list[ev'.task] = NULL
            /\ heap'.next[ev'.task] = NULL
            /\ heap'.prev[ev'.task] = NULL]_vars

\* list_insert_after or list_insert_before has just put a node between the
\* sentinel and the other nodes of a list that now holds every node.
C15_Witness ==
    /\ ev.op \in {"list_insert_after", "list_insert_before"}
    /\ \E l \in Lists :
          /\ Len(ListSeq(heap, l)) = NumTasks
          /\ heap.length[l] = NumTasks
          /\ ListSeq(heap, l)[1] = ev.task
          /\ heap.prev[ev.task] = l

\* ------------------------------------------------------------------------
\* Claims about the queue's locks, pointers and pending calls
\* ------------------------------------------------------------------------
\* The calls between their reservation and their commit.
InFlight(op) == {i \in DOMAIN qstack : qstack[i].op = op /\ qstack[i].pc = "copy"}

\* C16: w_lock is 0 whenever no write is between its reservation and its
\* commit, and r_lock is 0 whenever no read is; while w_lock > 0 exactly
\* one write in flight holds the reservation value 0, and while r_lock > 0
\* exactly one read in flight does; a call in flight is always counted in
\* its lock.
C16_LocksZeroWhenIdle ==
    /\ InFlight("write") = {} => w_lock = 0
    /\ InFlight("read") = {} => r_lock = 0
    /\ w_lock > 0 =>
          Cardinality({i \in InFlight("write") : qstack[i].lock = 0}) = 1
    /\ r_lock > 0 =>
          Cardinality({i \in InFlight("read") : qstack[i].lock = 0}) = 1
    /\ Cardinality(InFlight("write")) <= w_lock
    /\ Cardinality(InFlight("read")) <= r_lock

\* A write that reserved inside another write's copy has committed without
\* publishing: w_lock is 2 with only the first writer still in flight.
C16_Witness ==
    /\ w_lock = 2
    /\ Cardinality(InFlight("write")) = 1
    /\ ev.op = "write_commit"

Reading(op) == op \in {"pend_read", "read_pend"}

\* The queue, the wait lists and the scheduler lock.
QueueData ==
    <<free, used, w_lock, r_lock, head_ptr, tail_ptr, buff, list_read,
      list_write, sched_lock, task_delay, heap>>

\* The step makes the innermost call pass the re-check: the task is
\* committed to wait.
PassesRecheck ==
    /\ qstack' # <<>>
    /\ qstack'[Len(qstack')].pc = "pend"
    /\ Len(qstack') > Len(qstack) \/ Top.pc = "failed"

\* The step is taken by a QueueReadPend / QueueWritePend call whose read or
\* write succeeded, or whose ticks_to_wait is 0.
StepOfSuccessOrNoWait ==
    /\ qstack # <<>>
    /\ Len(qstack') <= Len(qstack)
    /\ \/ Top.op \in {"read", "write"} /\ Top.pend # -1
       \/ Top.pc = "failed" /\ Top.pend = 0

\* What QueueReadPend and QueueWritePend do apart from the last clause of
\* C17: the call reads or writes once, with the result of the non-blocking
\* call, and a failed call changes the queue no more; the task passes the
\* re-check only with ticks_to_wait # 0 and, in that critical section,
\* used = 0 (reading) or free = 0 (writing), for QueueReadPend and
\* QueueWritePend only after the read or write has failed; and a task
\* joins a wait list only as the running task finishing such a pend.
PendOnlyAfterFailedRecheck ==
    /\ [][(ev'.op = "read_pend" /\ Len(qstack') > Len(qstack)) =>
            LET f == qstack'[Len(qstack')]
            IN /\ ev'.val = 1 <=> used # 0
               /\ ev'.val = 1 => f.op = "read" /\ f.pc = "copy" /\ used' = used - 1
               /\ ev'.val = 0 => f.pc = "failed" /\ UNCHANGED QueueData]_vars
    /\ [][(ev'.op = "write_pend" /\ Len(qstack') > Len(qstack)) =>
            LET f == qstack'[Len(qstack')]
            IN /\ ev'.val = 1 <=> free # 0
               /\ ev'.val = 1 => f.op = "write" /\ f.pc = "copy" /\ free' = free - 1
               /\ ev'.val = 0 => f.pc = "failed" /\ UNCHANGED QueueData]_vars
    /\ [][(qstack # <<>> /\ Top.pc \in {"failed", "pend"} /\
            Len(qstack') <= Len(qstack)) =>
            /\ UNCHANGED <<free, used, w_lock, r_lock, head_ptr, tail_ptr, buff, fifo>>
            /\ Len(qstack') < Len(qstack) => ev'.op = "pend_return"]_vars
    /\ [][PassesRecheck =>
            LET f == qstack'[Len(qstack')]
            IN /\ f.pend # 0
               /\ IF Reading(f.op) THEN used = 0 ELSE free = 0
               /\ f.op \in {"read_pend", "write_pend"} =>
                     qstack # <<>> /\ Top.pc = "failed"]_vars
    /\ [][\A t \in Tasks :
            /\ (t \in Members(list_read') \ Members(list_read)) =>
                  /\ qstack # <<>> /\ Top.pc = "pend" /\ Reading(Top.op)
                  /\ t = current_task
            /\ (t \in Members(list_write') \ Members(list_write)) =>
                  /\ qstack # <<>> /\ Top.pc = "pend" /\ ~Reading(Top.op)
                  /\ t = current_task]_vars

\* C17, as stated: the above, and no step of a call that succeeded or was
\* made with ticks_to_wait = 0 changes a wait list.
C17_SuccessLeavesWaitListsAlone ==
    /\ PendOnlyAfterFailedRecheck
    /\ [][StepOfSuccessOrNoWait => UNCHANGED <<list_read, list_write>>]_vars

\* C17, amended: the above, and no step of a call that succeeded or was
\* made with ticks_to_wait = 0 puts a task on a wait list; a successful
\* call may take the first waiting task off the opposite list.
C17_PendOnlyAfterFailedRecheck ==
    /\ PendOnlyAfterFailedRecheck
    /\ [][StepOfSuccessOrNoWait =>
            /\ Members(list_read') \subseteq Members(list_read)
            /\ Members(list_write') \subseteq Members(list_write)
            /\ (Top.pc = "failed" \/ Top.pc = "exit") =>
                  UNCHANGED <<list_read, list_write>>]_vars

\* A write made from an interrupt between the failed read of QueueReadPend
\* and its re-check has completed: the re-check found the queue not empty
\* and the call returned without pending.
C17_Witness ==
    /\ ev.op = "pend_return"
    /\ ev.val = 1
    /\ qstack = <<>>
    /\ used > 0
    /\ ~OnWaitList(current_task)

\* The number of frames of s that are calls of QueueRead or QueueWrite.
RECURSIVE ReadsAndWrites(_)
ReadsAndWrites(s) ==
    IF s = <<>> THEN 0
    ELSE ReadsAndWrites(Pop(s)) +
         (IF s[Len(s)].op \in {"read", "write"} THEN 1 ELSE 0)

\* C18: every write and every read in progress holds the scheduler lock
\* from its reservation, through its copy, until after its commit: while
\* a call is copying, the scheduler-lock count covers it and every read
\* or write it is nested in.
C18_SchedulerLockedDuringCopy ==
    \A i \in DOMAIN qstack :
        (qstack[i].op \in {"read", "write"} /\ qstack[i].pc \in {"copy", "exit"}) =>
            sched_lock >= ReadsAndWrites(SubSeq(qstack, 1, i))

\* The SchedulerLock() calls of the frames of s not yet matched by a
\* SchedulerUnlock(): QueueWrite holds one from its reservation, QueueRead
\* from its commit, a pending call from its re-check.
RECURSIVE HeldBy(_)
HeldBy(s) ==
    IF s = <<>> THEN 0
    ELSE HeldBy(Pop(s)) +
         (IF \/ s[Len(s)].op = "write"
             \/ s[Len(s)].op = "read" /\ s[Len(s)].pc = "exit"
             \/ s[Len(s)].pc = "pend"
          THEN 1 ELSE 0)

\* C19: the scheduler-lock count is always the count of the calls in
\* progress that hold it, so it is never below the value a call in
\* progress found on entry and is back at that value when the call
\* returns, on the successful and on the failing paths of QueueWrite,
\* QueueRead, QueuePendRead, QueuePendWrite, QueueReadPend and
\* QueueWritePend; a call that fails or does not pend at once leaves it
\* unchanged.
C19_SchedulerLockBalanced ==
    /\ [](sched_lock = HeldBy(qstack))
    /\ [](\A i \in DOMAIN qstack : sched_lock >= HeldBy(SubSeq(qstack, 1, i - 1)))
    /\ [][Len(qstack') < Len(qstack) => sched_lock' = HeldBy(Pop(qstack))]_vars
    /\ [][(Len(qstack') = Len(qstack) /\
            ev'.op \in {"read", "write", "pend_read", "pend_write"}) =>
            sched_lock' = sched_lock]_vars

\* A read nested in the copy of a write has returned: the count is back at
\* the 1 held by the write.
C19_Witness ==
    /\ ev.op = "read_return"
    /\ Len(qstack) = 1
    /\ qstack[1].op = "write"
    /\ qstack[1].pc = "copy"
    /\ sched_lock = 1

\* The slots counted in r_lock, used and w_lock: from r_lock slots before
\* head up to tail.
CountedSlots ==
    {(SlotOf(head_ptr) - r_lock + k) % QueueLen : k \in 0..(r_lock + used + w_lock - 1)}

\* C20: head and tail are at the start of one of the QueueLen slots; the
\* distance from head to tail is used + w_lock, modulo QueueLen; and the
\* slot a write reserves is counted neither in used nor in w_lock nor in
\* r_lock when the write reserves it.
C20_PointersOnSlots ==
    /\ [](/\ head_ptr \in {buff_ptr + k * ItemSize : k \in Slots}
          /\ tail_ptr \in {buff_ptr + k * ItemSize : k \in Slots}
          /\ head_ptr <= buff_end_ptr /\ tail_ptr <= buff_end_ptr
          /\ (SlotOf(tail_ptr) - SlotOf(head_ptr)) % QueueLen
                = (used + w_lock) % QueueLen)
    /\ [][(Len(qstack') > Len(qstack) /\ qstack'[Len(qstack')].op = "write") =>
            /\ qstack'[Len(qstack')].pos_ptr = tail_ptr
            /\ SlotOf(tail_ptr) \notin CountedSlots
            /\ SlotOf(tail_ptr) \in CountedSlots']_vars

\* A write has just reserved the last slot, tail wrapping to the base,
\* while a read is in flight on the slot before head.
C20_Witness ==
    /\ ev.op = "write"
    /\ ev.val = 1
    /\ tail_ptr = buff_ptr
    /\ Top.pos_ptr = buff_end_ptr
    /\ r_lock > 0

\* ------------------------------------------------------------------------
\* Claim about the scheduler lists as a whole
\* ------------------------------------------------------------------------
RECURSIVE ReadyLengths(_, _)
ReadyLengths(h, i) ==
    IF i > HIGH_PRIORITY THEN 0 ELSE h.length[ReadyList(i)] + ReadyLengths(h, i + 1)

RECURSIVE ReadyNodes(_, _)
ReadyNodes(h, i) ==
    IF i > HIGH_PRIORITY THEN 0 ELSE Len(ReadySeq(h, i)) + ReadyNodes(h, i + 1)

Running == {kstack[i].task : i \in DOMAIN kstack}

\* C21: after librertos_init and any calls of librertos_create_task (once
\* per task record), librertos_sched, task_suspend and task_resume, made
\* from idle or from inside running tasks, the sched_node of every created
\* task is on exactly one list, the ready list of the task's priority or
\* the suspended list, and no other task is on a list; the lengths of the
\* ready lists and of the suspended list, and the nodes met on them, add
\* up to the number of created tasks; a running task on its ready list
\* stays there through every call but a task_suspend of it; and
\* librertos_tick_interrupt adds 1 to the tick, modulo the width of
\* tick_t, and changes nothing else.
C21_TasksOnOneList ==
    /\ [](\A t \in Tasks :
            IF Created(t)
            THEN /\ heap.list[t] \in {ReadyList(task_priority[t]), SuspendedList}
                 /\ {l \in Lists : t \in Members(ListSeq(heap, l))} = {heap.list[t]}
                 /\ {l \in Lists : t \in Members(ListSeqBack(heap, l))} = {heap.list[t]}
            ELSE \A l \in Lists : t \notin Members(ListSeq(heap, l)))
    /\ [](LET created == Cardinality({t \in Tasks : Created(t)})
          IN /\ ReadyLengths(heap, LOW_PRIORITY) + heap.length[SuspendedList] = created
             /\ ReadyNodes(heap, LOW_PRIORITY) + Len(ListSeq(heap, SuspendedList))
                   = created)
    /\ [][\A t \in Running :
            (heap.list[t] = ReadyList(task_priority[t]) /\
             ~(ev'.op = "suspend" /\ ev'.task = t)) =>
                heap'.list[t] = ReadyList(task_priority[t])]_vars
    /\ [][ev'.op = "tick" =>
            /\ tick' = (tick + 1) % TickModulus
            /\ UNCHANGED <<current_task, heap, task_priority, kernel_mode, kstack>>
            /\ UNCHANGED <<qvars, mvars>>]_vars

\* The tick has just wrapped to 0 while a task dispatched from inside
\* another task runs suspended and the task below it is on its ready list.
C21_Witness ==
    /\ ev.op = "tick"
    /\ tick = 0
    /\ Len(kstack) = 2
    /\ heap.list[current_task] = SuspendedList
    /\ heap.list[kstack[1].task] = ReadyList(task_priority[kstack[1].task])

====
